---- MODULE Spec2Model ----
(***************************************************************************)
(* A model of app.py: CircularQueue, CameraThread and the harnesses that   *)
(* drive them.                                                             *)
(*                                                                         *)
(* SpecQ / SpecQFair : one CircularQueue(maxlen) shared by one producer    *)
(*                     thread (put) and one consumer thread (get,          *)
(*                     get_nowait).                                        *)
(* SpecW / SpecWFair : CameraThread objects driven by a client thread that *)
(*                     calls start(), stop(), get_results(wait), join().   *)
(* SpecM             : main() with its two CameraThread objects and the    *)
(*                     Streamer.                                           *)
(***************************************************************************)
EXTENDS Integers, Sequences, FiniteSets, TLC

\* ------------------------------------------------------------------ bounds

\* Largest capacity a CircularQueue is constructed with in SpecQ.
MaxCap == 3
\* Number of items the producer thread of SpecQ publishes.
MaxPub == 4
\* Number of get / get_nowait calls the consumer thread of SpecQ issues.
MaxCalls == 4

\* Number of results a CameraThread publishes before stop() is requested.
MaxFrames == 3
\* Number of calls the client thread of SpecW issues.
MaxClientCalls == 5

\* CameraThread.__init__: self._results_q = CircularQueue(2)
ResultsQSize == 2

\* main: camera_idxs = [0, 1]
CameraIdxs == {0, 1}

\* ------------------------------------------------------------------ state

VARIABLES
    \* --- SpecQ: a CircularQueue and its two threads
    maxlen,     \* CircularQueue._queue.maxlen
    dq,         \* CircularQueue._queue: the deque, leftmost element first
    npub,       \* number of put calls completed; the k-th put publishes item k
    cpc,        \* consumer thread: "idle" | "pop" (get: line 20) | "sleep" (line 22)
    ncalls,     \* number of get / get_nowait calls issued by the consumer
    cop,        \* the method the consumer called last: "none" | "get" | "get_nowait"
    taken,      \* items returned to the consumer so far, in return order
    cout,       \* outcome of the consumer's last completed call
    gseen,      \* npub when a pop of the running get() last raised IndexError; -1 if none did
    \* --- CameraThread objects, one per camera index
    cameras,       \* the list of constructed CameraThread objects (by camera index)
    wpc,           \* position of the worker thread in run / _run_detection
    loaded,        \* obj_detect.load(engine) has returned
    stream,        \* the WebcamVideoStream of the with block: "none" | "open" | "released"
    err,           \* the exception that left _run_detection: "none" | "setup" | "loop"
    nframes,       \* number of results the worker has put on its queue
    ncleanup,      \* number of times the finally block of run has run
    nafter,        \* number of results the worker has put while its stop event was set
    nrelease,      \* number of times the with block has released the stream
    results_q,     \* CameraThread._results_q._queue, leftmost element first
    stop_event,    \* CameraThread._stop_event
    prev_results,  \* CameraThread._prev_results
    \* --- the client thread of the CameraThread objects
    hpc,           \* "idle" | "pop" / "sleep" (inside get_results(wait=True)) | "join"
    hcam,          \* the camera of the client's last call
    hcalls,        \* number of calls issued by the client
    hret,          \* the client's last call and its outcome
    lastRead,      \* per camera, the result most recently popped from its queue
    \* --- the main thread (main)
    mpc,           \* position of main: "none" when main is not run
    mi,            \* position in `cameras` of the for loop main is in (from 1)
    mresults,      \* main's list `results` of the running iteration
    streamer,      \* the edgeiq.Streamer of the with block: "none" | "open" | "closed"
    merr,          \* an exception is propagating out of main's try block
    nsent,         \* number of streamer.send_data calls completed
    payload,       \* the arguments of the last send_data call
    exitreq,       \* streamer.check_exit() has returned True
    mwait,         \* nframes of the camera main waits on, when its get_results call began
    mtaken,        \* per camera, the number of results get_results has returned to main
    shut           \* the stop() calls and join() returns of main's finally block, in order

qvars == <<maxlen, dq, npub, cpc, ncalls, cop, taken, cout, gseen>>

\* the worker thread's own state
\* what is counted about the worker thread
thist == <<nafter, nrelease>>

tvars == <<wpc, loaded, stream, err, nframes, ncleanup, thist>>

\* the client thread's state
hvars == <<hpc, hcam, hcalls, hret, lastRead>>

wvars == <<cameras, tvars, results_q, stop_event, prev_results, hvars>>

\* the main thread's state
mvars == <<mpc, mi, mresults, streamer, merr, nsent, payload, exitreq, mwait,
           mtaken, shut>>

vars == <<qvars, wvars, mvars>>

\* ------------------------------------------------------------------ deque

\* An append at the wrong end: the new item lands where pop takes from.
appendleft_right(q, m, item) ==
    IF Len(q) >= m THEN SubSeq(q, 2, Len(q)) \o <<item>> ELSE q \o <<item>>

\* A bounded insert that refuses the new item when the deque is full.
appendleft_dropnew(q, m, item) ==
    IF Len(q) >= m THEN q ELSE <<item>> \o q

\* An insert into a deque without maxlen: nothing is ever discarded.
appendleft_unbounded(q, m, item) == <<item>> \o q

\* collections.deque.appendleft on a deque(maxlen=m): when the deque is full
\* the element at the opposite (right) end is discarded.
appendleft(q, m, item) ==
    IF m = 0 THEN q
    ELSE IF Len(q) >= m THEN <<item>> \o SubSeq(q, 1, m - 1)
    ELSE <<item>> \o q

\* A pop at the wrong end (popleft): the newest item.
pop_left(q) ==
    IF Len(q) = 0 THEN [ok |-> FALSE, item |-> 0, q |-> q]
    ELSE [ok |-> TRUE, item |-> q[1], q |-> Tail(q)]

\* A pop that only looks: the rightmost element stays in the deque.
pop_peek(q) ==
    IF Len(q) = 0 THEN [ok |-> FALSE, item |-> 0, q |-> q]
    ELSE [ok |-> TRUE, item |-> q[Len(q)], q |-> q]

\* collections.deque.pop: removes and returns the rightmost element,
\* IndexError (ok = FALSE) on an empty deque.
pop(q) ==
    IF Len(q) = 0 THEN [ok |-> FALSE, item |-> 0, q |-> q]
    ELSE [ok |-> TRUE, item |-> q[Len(q)], q |-> SubSeq(q, 1, Len(q) - 1)]

\* ------------------------------------------------------------------ CircularQueue

\* CircularQueue.put(item)
put(q, m, item) == appendleft(q, m, item)

NoOutcome == [op |-> "none", empty |-> FALSE, val |-> 0]

\* A FrameResult: the dict built in _run_detection, identified by the camera
\* that produced it and its number among that camera's results.
Result(c, n) == [idx |-> c, seq |-> n]

\* Python's None.
None == [idx |-> -1, seq |-> 0]

\* hret: op names the client's last call ("get_wait" and "join_wait" while that
\* call has not returned), val is what get_results returned, hit tells whether
\* it popped a result, flag whether the call raised (for stop: whether the
\* event was set already).
NoCall == [op |-> "none", cam |-> -1, val |-> None, flag |-> FALSE, hit |-> FALSE]

\* CameraThread.__init__ for every camera index, and an idle client.
InitWorkers(cams) ==
    /\ cameras = cams
    /\ wpc = [c \in CameraIdxs |-> "init"]
    /\ loaded = [c \in CameraIdxs |-> FALSE]
    /\ stream = [c \in CameraIdxs |-> "none"]
    /\ err = [c \in CameraIdxs |-> "none"]
    /\ nframes = [c \in CameraIdxs |-> 0]
    /\ ncleanup = [c \in CameraIdxs |-> 0]
    /\ nafter = [c \in CameraIdxs |-> 0]
    /\ nrelease = [c \in CameraIdxs |-> 0]
    /\ results_q = [c \in CameraIdxs |-> <<>>]
    /\ stop_event = [c \in CameraIdxs |-> FALSE]
    /\ prev_results = [c \in CameraIdxs |-> None]
    /\ hpc = "idle"
    /\ hcam = -1
    /\ hcalls = 0
    /\ hret = NoCall
    /\ lastRead = [c \in CameraIdxs |-> None]

NoPayload == [frame |-> <<>>, text |-> <<>>]

\* main before its first statement; pc0 = "none": main is not run.
InitMain(pc0) ==
    /\ mpc = pc0
    /\ mi = 1
    /\ mresults = <<>>
    /\ streamer = "none"
    /\ merr = FALSE
    /\ nsent = 0
    /\ payload = NoPayload
    /\ exitreq = FALSE
    /\ mwait = 0
    /\ mtaken = [c \in CameraIdxs |-> 0]
    /\ shut = <<>>

InitQ ==
    /\ InitWorkers(<<>>)
    /\ InitMain("none")
    /\ maxlen \in 1..MaxCap
    /\ dq = <<>>
    /\ npub = 0
    /\ cpc = "idle"
    /\ ncalls = 0
    /\ cop = "none"
    /\ taken = <<>>
    /\ cout = NoOutcome
    /\ gseen = -1

\* A put that waits for room, as queue.Queue.put does on a full queue.
QPut_blocking ==
    /\ npub < MaxPub
    /\ Len(dq) < maxlen
    /\ npub' = npub + 1
    /\ dq' = put(dq, maxlen, npub + 1)
    /\ UNCHANGED <<maxlen, cpc, ncalls, cop, taken, cout, gseen, wvars, mvars>>

\* The producer thread calls put(item): one deque operation, no wait, no raise.
QPut ==
    /\ npub < MaxPub
    /\ npub' = npub + 1
    /\ dq' = put(dq, maxlen, npub + 1)
    /\ UNCHANGED <<maxlen, cpc, ncalls, cop, taken, cout, gseen, wvars, mvars>>

\* The consumer thread calls get(): enters the while loop.
QGetCall ==
    /\ cpc = "idle"
    /\ ncalls < MaxCalls
    /\ ncalls' = ncalls + 1
    /\ cop' = "get"
    /\ cpc' = "pop"
    /\ gseen' = -1
    /\ UNCHANGED <<maxlen, dq, npub, taken, cout, wvars, mvars>>

\* A get that gives up on IndexError and returns nothing instead of retrying.
QGetPop_noretry ==
    /\ cpc = "pop"
    /\ LET r == pop(dq) IN
         /\ dq' = r.q
         /\ cpc' = "idle"
         /\ taken' = IF r.ok THEN Append(taken, r.item) ELSE taken
         /\ cout' = [op |-> "get", empty |-> ~r.ok, val |-> r.item]
         /\ gseen' = IF r.ok THEN gseen ELSE npub
    /\ UNCHANGED <<maxlen, npub, ncalls, cop, wvars, mvars>>

\* get(): `return self._queue.pop()`, or IndexError and on to the sleep.
QGetPop ==
    /\ cpc = "pop"
    /\ LET r == pop(dq) IN
         IF r.ok
         THEN /\ dq' = r.q
              /\ cpc' = "idle"
              /\ taken' = Append(taken, r.item)
              /\ cout' = [op |-> "get", empty |-> FALSE, val |-> r.item]
              /\ UNCHANGED gseen
         ELSE /\ cpc' = "sleep"
              /\ gseen' = npub
              /\ UNCHANGED <<dq, taken, cout>>
    /\ UNCHANGED <<maxlen, npub, ncalls, cop, wvars, mvars>>

\* get(): time.sleep(0.01) is over, back to the top of the loop.
QGetSleep ==
    /\ cpc = "sleep"
    /\ cpc' = "pop"
    /\ UNCHANGED <<maxlen, dq, npub, ncalls, cop, taken, cout, gseen, wvars, mvars>>

\* The consumer thread calls get_nowait(): pop, or queue.Empty.
QGetNowait ==
    /\ cpc = "idle"
    /\ ncalls < MaxCalls
    /\ ncalls' = ncalls + 1
    /\ cop' = "get_nowait"
    /\ LET r == pop(dq) IN
         IF r.ok
         THEN /\ dq' = r.q
              /\ taken' = Append(taken, r.item)
              /\ cout' = [op |-> "get_nowait", empty |-> FALSE, val |-> r.item]
         ELSE /\ cout' = [op |-> "get_nowait", empty |-> TRUE, val |-> 0]
              /\ UNCHANGED <<dq, taken>>
    /\ UNCHANGED <<maxlen, npub, cpc, gseen, wvars, mvars>>

NextQ ==
    \/ QPut
    \/ QGetCall
    \/ QGetPop
    \/ QGetSleep
    \/ QGetNowait

SpecQ == InitQ /\ [][NextQ]_vars

\* The consumer thread is scheduled: a poll that is due is eventually made.
SpecQFair == SpecQ /\ WF_vars(QGetPop) /\ WF_vars(QGetSleep)

\* ------------------------------------------------------------------ CameraThread: the worker thread

Cams == {cameras[i] : i \in 1..Len(cameras)}

LoopPcs == {"read", "check", "detect", "put"}

\* A setup whose failure is swallowed: the thread goes on to the capture.
WSetup_ignore(c) ==
    /\ wpc[c] = "setup"
    /\ \E ok \in BOOLEAN :
         /\ loaded' = [loaded EXCEPT ![c] = ok]
         /\ err' = [err EXCEPT ![c] = IF ok THEN @ ELSE "setup"]
         /\ wpc' = [wpc EXCEPT ![c] = "open"]
    /\ UNCHANGED <<stream, nframes, ncleanup, thist>>
    /\ UNCHANGED <<cameras, results_q, stop_event, prev_results, hvars, qvars, mvars>>

\* run, line 114, and _run_detection, lines 78-84: ObjectDetection(model_id)
\* and obj_detect.load(engine); either may raise, which leaves through the
\* finally block of run.
WSetup(c) ==
    /\ wpc[c] = "setup"
    /\ \E ok \in BOOLEAN :
         IF ok
         THEN /\ loaded' = [loaded EXCEPT ![c] = TRUE]
              /\ wpc' = [wpc EXCEPT ![c] = "open"]
              /\ UNCHANGED err
         ELSE /\ err' = [err EXCEPT ![c] = "setup"]
              /\ wpc' = [wpc EXCEPT ![c] = "finally"]
              /\ UNCHANGED loaded
    /\ UNCHANGED <<stream, nframes, ncleanup, thist>>
    /\ UNCHANGED <<cameras, results_q, stop_event, prev_results, hvars, qvars, mvars>>

\* line 86: `with edgeiq.WebcamVideoStream(cam=self.idx) as video_stream`;
\* a failure to open raises before the with block is entered.
WOpen(c) ==
    /\ wpc[c] = "open"
    /\ \E ok \in BOOLEAN :
         IF ok
         THEN /\ stream' = [stream EXCEPT ![c] = "open"]
              /\ wpc' = [wpc EXCEPT ![c] = "warmup"]
              /\ UNCHANGED err
         ELSE /\ err' = [err EXCEPT ![c] = "setup"]
              /\ wpc' = [wpc EXCEPT ![c] = "finally"]
              /\ UNCHANGED stream
    /\ UNCHANGED <<loaded, nframes, ncleanup, thist>>
    /\ UNCHANGED <<cameras, results_q, stop_event, prev_results, hvars, qvars, mvars>>

\* lines 88-89: time.sleep(2.0); self._fps.start(); then into the loop.
WWarmup(c) ==
    /\ wpc[c] = "warmup"
    /\ wpc' = [wpc EXCEPT ![c] = "read"]
    /\ UNCHANGED <<loaded, stream, err, nframes, ncleanup, thist>>
    /\ UNCHANGED <<cameras, results_q, stop_event, prev_results, hvars, qvars, mvars>>

\* line 92: frame = video_stream.read(); it may raise.  The camera delivers
\* at most MaxFrames frames to a worker that has not been asked to stop.
WRead(c) ==
    /\ wpc[c] = "read"
    /\ nframes[c] < MaxFrames \/ stop_event[c]
    /\ \E ok \in BOOLEAN :
         IF ok
         THEN /\ wpc' = [wpc EXCEPT ![c] = "check"]
              /\ UNCHANGED err
         ELSE /\ err' = [err EXCEPT ![c] = "loop"]
              /\ wpc' = [wpc EXCEPT ![c] = "release"]
    /\ UNCHANGED <<loaded, stream, nframes, ncleanup, thist>>
    /\ UNCHANGED <<cameras, results_q, stop_event, prev_results, hvars, qvars, mvars>>

\* A stop check that skips the rest of the iteration (continue, not break).
WCheck_continue(c) ==
    /\ wpc[c] = "check"
    /\ wpc' = [wpc EXCEPT ![c] = IF stop_event[c] THEN "read" ELSE "detect"]
    /\ UNCHANGED <<loaded, stream, err, nframes, ncleanup, thist>>
    /\ UNCHANGED <<cameras, results_q, stop_event, prev_results, hvars, qvars, mvars>>

\* A loop without the stop check of lines 94-95.
WCheck_nocheck(c) ==
    /\ wpc[c] = "check"
    /\ wpc' = [wpc EXCEPT ![c] = "detect"]
    /\ UNCHANGED <<loaded, stream, err, nframes, ncleanup, thist>>
    /\ UNCHANGED <<cameras, results_q, stop_event, prev_results, hvars, qvars, mvars>>

\* lines 94-95: if self._stop_event.is_set(): break
WCheck(c) ==
    /\ wpc[c] = "check"
    /\ wpc' = [wpc EXCEPT ![c] = IF stop_event[c] THEN "release" ELSE "detect"]
    /\ UNCHANGED <<loaded, stream, err, nframes, ncleanup, thist>>
    /\ UNCHANGED <<cameras, results_q, stop_event, prev_results, hvars, qvars, mvars>>

\* lines 97-100: detect_objects and markup_image; either may raise.
WDetect(c) ==
    /\ wpc[c] = "detect"
    /\ \E ok \in BOOLEAN :
         IF ok
         THEN /\ wpc' = [wpc EXCEPT ![c] = "put"]
              /\ UNCHANGED err
         ELSE /\ err' = [err EXCEPT ![c] = "loop"]
              /\ wpc' = [wpc EXCEPT ![c] = "release"]
    /\ UNCHANGED <<loaded, stream, nframes, ncleanup, thist>>
    /\ UNCHANGED <<cameras, results_q, stop_event, prev_results, hvars, qvars, mvars>>

\* lines 102-110: build output_results, self._results_q.put(output_results),
\* self._fps.update(), and back to the top of the loop.
WPut(c) ==
    /\ wpc[c] = "put"
    /\ nframes' = [nframes EXCEPT ![c] = @ + 1]
    /\ results_q' = [results_q EXCEPT
                       ![c] = put(@, ResultsQSize, Result(c, nframes[c] + 1))]
    /\ nafter' = [nafter EXCEPT ![c] = IF stop_event[c] THEN @ + 1 ELSE @]
    /\ wpc' = [wpc EXCEPT ![c] = "read"]
    /\ UNCHANGED <<loaded, stream, err, ncleanup, nrelease>>
    /\ UNCHANGED <<cameras, stop_event, prev_results, hvars, qvars, mvars>>

\* A loop outside any with block: an exception leaves the stream as it is.
WRelease_onbreak(c) ==
    /\ wpc[c] = "release"
    /\ stream' = [stream EXCEPT ![c] = IF err[c] = "none" THEN "released" ELSE @]
    /\ nrelease' = [nrelease EXCEPT ![c] = IF err[c] = "none" THEN @ + 1 ELSE @]
    /\ wpc' = [wpc EXCEPT ![c] = "finally"]
    /\ UNCHANGED <<loaded, err, nframes, ncleanup, nafter>>
    /\ UNCHANGED <<cameras, results_q, stop_event, prev_results, hvars, qvars, mvars>>

\* The with block of line 86 is left (break or exception): the stream is released.
WRelease(c) ==
    /\ wpc[c] = "release"
    /\ stream' = [stream EXCEPT ![c] = "released"]
    /\ nrelease' = [nrelease EXCEPT ![c] = @ + 1]
    /\ wpc' = [wpc EXCEPT ![c] = "finally"]
    /\ UNCHANGED <<loaded, err, nframes, ncleanup, nafter>>
    /\ UNCHANGED <<cameras, results_q, stop_event, prev_results, hvars, qvars, mvars>>

\* A run that starts over after its finally block instead of ending.
WFinally_retry(c) ==
    /\ wpc[c] = "finally"
    /\ ncleanup' = [ncleanup EXCEPT ![c] = @ + 1]
    /\ wpc' = [wpc EXCEPT ![c] = IF err[c] = "none" THEN "done" ELSE "setup"]
    /\ UNCHANGED <<loaded, stream, err, nframes, thist>>
    /\ UNCHANGED <<cameras, results_q, stop_event, prev_results, hvars, qvars, mvars>>

\* run, lines 116-122: the finally block (fps.stop and the summary), after
\* which run returns or the exception ends the thread.
WFinally(c) ==
    /\ wpc[c] = "finally"
    /\ ncleanup' = [ncleanup EXCEPT ![c] = @ + 1]
    /\ wpc' = [wpc EXCEPT ![c] = "done"]
    /\ UNCHANGED <<loaded, stream, err, nframes, thist>>
    /\ UNCHANGED <<cameras, results_q, stop_event, prev_results, hvars, qvars, mvars>>

\* ------------------------------------------------------------------ CameraThread: the client's calls

\* A stop that flips the event instead of setting it.
stop_toggle(ev) == ~ev

\* CameraThread.stop: self._stop_event.set()
stop(ev) == TRUE

\* get_results(wait=False) without line 74: the result is not cached.
get_results_nowait_nocache(q, prev) ==
    LET r == pop(q) IN
    [results |-> IF r.ok THEN r.item ELSE prev, prev |-> prev, q |-> r.q,
     hit |-> r.ok, raised |-> FALSE]

\* get_results(wait=False) without the except clause: queue.Empty escapes.
get_results_nowait_raise(q, prev) ==
    LET r == pop(q) IN
    [results |-> IF r.ok THEN r.item ELSE None,
     prev |-> IF r.ok THEN r.item ELSE prev, q |-> r.q,
     hit |-> r.ok, raised |-> ~r.ok]

\* CameraThread.get_results(wait=False), lines 69-75: get_nowait, on
\* queue.Empty the previous results; the outcome is stored in _prev_results.
get_results_nowait(q, prev) ==
    LET r == pop(q)
        results == IF r.ok THEN r.item ELSE prev
    IN  [results |-> results, prev |-> results, q |-> r.q,
         hit |-> r.ok, raised |-> FALSE]

\* threading.Thread.start: the thread begins run; a second start raises
\* RuntimeError and starts nothing.
HStart(c) ==
    /\ hpc = "idle"
    /\ hcalls < MaxClientCalls
    /\ hcalls' = hcalls + 1
    /\ hcam' = c
    /\ IF wpc[c] = "init"
       THEN /\ wpc' = [wpc EXCEPT ![c] = "setup"]
            /\ hret' = [op |-> "start", cam |-> c, val |-> None, flag |-> FALSE,
                        hit |-> FALSE]
       ELSE /\ hret' = [op |-> "start", cam |-> c, val |-> None, flag |-> TRUE,
                        hit |-> FALSE]
            /\ UNCHANGED wpc
    /\ UNCHANGED <<hpc, lastRead>>
    /\ UNCHANGED <<loaded, stream, err, nframes, ncleanup, thist>>
    /\ UNCHANGED <<cameras, results_q, stop_event, prev_results, qvars, mvars>>

\* CameraThread.stop, lines 55-57.  flag records whether the event was
\* already set.
HStop(c) ==
    /\ hpc = "idle"
    /\ hcalls < MaxClientCalls
    /\ hcalls' = hcalls + 1
    /\ hcam' = c
    /\ stop_event' = [stop_event EXCEPT ![c] = stop(@)]
    /\ hret' = [op |-> "stop", cam |-> c, val |-> None, flag |-> stop_event[c],
                hit |-> FALSE]
    /\ UNCHANGED <<hpc, lastRead>>
    /\ UNCHANGED <<cameras, tvars, results_q, prev_results, qvars, mvars>>

\* CameraThread.get_results(wait=True), lines 66-67: enters CircularQueue.get.
HGetCall(c) ==
    /\ hpc = "idle"
    /\ hcalls < MaxClientCalls
    /\ hcalls' = hcalls + 1
    /\ hcam' = c
    /\ hpc' = "pop"
    /\ hret' = [op |-> "get_wait", cam |-> c, val |-> None, flag |-> FALSE,
                hit |-> FALSE]
    /\ UNCHANGED lastRead
    /\ UNCHANGED <<cameras, tvars, results_q, stop_event, prev_results, qvars, mvars>>

\* A get that gives up after its first look and returns None.
HGetPop_timeout ==
    /\ hpc = "pop"
    /\ LET r == pop(results_q[hcam]) IN
         /\ results_q' = [results_q EXCEPT ![hcam] = r.q]
         /\ hpc' = "idle"
         /\ hret' = [op |-> "get", cam |-> hcam,
                     val |-> IF r.ok THEN r.item ELSE None, flag |-> FALSE,
                     hit |-> r.ok]
         /\ lastRead' = [lastRead EXCEPT ![hcam] = IF r.ok THEN r.item ELSE @]
    /\ UNCHANGED <<hcam, hcalls>>
    /\ UNCHANGED <<cameras, tvars, stop_event, prev_results, qvars, mvars>>

\* CircularQueue.get, lines 19-21, on the camera's queue: the popped result
\* is returned by get_results as it is, or IndexError leads to the sleep.
HGetPop ==
    /\ hpc = "pop"
    /\ LET r == pop(results_q[hcam]) IN
         IF r.ok
         THEN /\ results_q' = [results_q EXCEPT ![hcam] = r.q]
              /\ hpc' = "idle"
              /\ hret' = [op |-> "get", cam |-> hcam, val |-> r.item, flag |-> FALSE,
                          hit |-> TRUE]
              /\ lastRead' = [lastRead EXCEPT ![hcam] = r.item]
         ELSE /\ hpc' = "sleep"
              /\ UNCHANGED <<results_q, hret, lastRead>>
    /\ UNCHANGED <<hcam, hcalls>>
    /\ UNCHANGED <<cameras, tvars, stop_event, prev_results, qvars, mvars>>

\* CircularQueue.get, line 22: time.sleep(0.01) is over.
HGetSleep ==
    /\ hpc = "sleep"
    /\ hpc' = "pop"
    /\ UNCHANGED <<hcam, hcalls, hret, lastRead>>
    /\ UNCHANGED <<cameras, tvars, results_q, stop_event, prev_results, qvars, mvars>>

\* CameraThread.get_results(wait=False), lines 68-75.
HGetNowait(c) ==
    /\ hpc = "idle"
    /\ hcalls < MaxClientCalls
    /\ hcalls' = hcalls + 1
    /\ hcam' = c
    /\ LET g == get_results_nowait(results_q[c], prev_results[c]) IN
         /\ results_q' = [results_q EXCEPT ![c] = g.q]
         /\ prev_results' = [prev_results EXCEPT ![c] = g.prev]
         /\ hret' = [op |-> "get_nowait", cam |-> c, val |-> g.results,
                     flag |-> g.raised, hit |-> g.hit]
         /\ lastRead' = [lastRead EXCEPT ![c] = IF g.hit THEN g.results ELSE @]
    /\ UNCHANGED hpc
    /\ UNCHANGED <<cameras, tvars, stop_event, qvars, mvars>>

\* threading.Thread.join on a started thread: the caller waits ...
HJoinCall(c) ==
    /\ hpc = "idle"
    /\ hcalls < MaxClientCalls
    /\ wpc[c] # "init"
    /\ hcalls' = hcalls + 1
    /\ hcam' = c
    /\ hpc' = "join"
    /\ hret' = [op |-> "join_wait", cam |-> c, val |-> None, flag |-> FALSE,
                hit |-> FALSE]
    /\ UNCHANGED lastRead
    /\ UNCHANGED <<cameras, tvars, results_q, stop_event, prev_results, qvars, mvars>>

\* ... until the thread has ended.
HJoinReturn ==
    /\ hpc = "join"
    /\ wpc[hcam] = "done"
    /\ hpc' = "idle"
    /\ hret' = [op |-> "join", cam |-> hcam, val |-> None, flag |-> FALSE,
                hit |-> FALSE]
    /\ UNCHANGED <<hcam, hcalls, lastRead>>
    /\ UNCHANGED <<cameras, tvars, results_q, stop_event, prev_results, qvars, mvars>>

\* The CircularQueue of SpecQ is not used by the CameraThread harness.
IdleQ ==
    /\ maxlen = ResultsQSize
    /\ dq = <<>>
    /\ npub = 0
    /\ cpc = "idle"
    /\ ncalls = 0
    /\ cop = "none"
    /\ taken = <<>>
    /\ cout = NoOutcome
    /\ gseen = -1

\* One CameraThread, constructed as main constructs its first one.
InitW ==
    /\ InitWorkers(<<0>>)
    /\ InitMain("none")
    /\ IdleQ

NextW ==
    \/ \E c \in Cams : WSetup(c)
    \/ \E c \in Cams : WOpen(c)
    \/ \E c \in Cams : WWarmup(c)
    \/ \E c \in Cams : WRead(c)
    \/ \E c \in Cams : WCheck(c)
    \/ \E c \in Cams : WDetect(c)
    \/ \E c \in Cams : WPut(c)
    \/ \E c \in Cams : WRelease(c)
    \/ \E c \in Cams : WFinally(c)
    \/ \E c \in Cams : HStart(c)
    \/ \E c \in Cams : HStop(c)
    \/ \E c \in Cams : HGetCall(c)
    \/ \E c \in Cams : HGetNowait(c)
    \/ \E c \in Cams : HJoinCall(c)
    \/ HGetPop
    \/ HGetSleep
    \/ HJoinReturn

SpecW == InitW /\ [][NextW]_vars

\* The step the thread of worker c is at.
WorkerStep(c) ==
    \/ WSetup(c)
    \/ WOpen(c)
    \/ WWarmup(c)
    \/ WRead(c)
    \/ WCheck(c)
    \/ WDetect(c)
    \/ WPut(c)
    \/ WRelease(c)
    \/ WFinally(c)

\* Every started worker thread is scheduled and each of its external calls
\* (load, open, read, detect, markup) returns or raises; a join whose thread
\* has ended returns.
SpecWFair ==
    /\ SpecW
    /\ \A c \in CameraIdxs : WF_vars(WorkerStep(c))
    /\ WF_vars(HJoinReturn)

\* ------------------------------------------------------------------ main

\* main, line 130: camera_idxs = [0, 1], one CameraThread each (lines 131-132).
camera_idxs == <<0, 1>>

\* The worker state main's own steps leave alone.
wfixed == <<cameras, results_q, prev_results>>

\* A payload built from the results in reverse order.
compose_reversed(res) ==
    [frame |-> <<res[2], res[1]>>,
     text |-> [i \in 1..Len(res) |-> res[Len(res) + 1 - i]]]

\* main, lines 145-159: the text lines of every result, in list order, and
\* np.concatenate((results[0]["frame"], results[1]["frame"]), axis=0).
compose(res) ==
    [frame |-> <<res[1], res[2]>>,
     text |-> [i \in 1..Len(res) |-> res[i]]]

\* main, lines 134-135: `for c in cameras: c.start()`, one camera per step.
MStart ==
    /\ mpc = "start"
    /\ wpc' = [wpc EXCEPT ![cameras[mi]] = "setup"]
    /\ IF mi < Len(cameras)
       THEN /\ mi' = mi + 1
            /\ UNCHANGED mpc
       ELSE /\ mi' = 1
            /\ mpc' = "streamer"
    /\ UNCHANGED <<mresults, streamer, merr, nsent, payload, exitreq, mwait,
                   mtaken, shut>>
    /\ UNCHANGED <<loaded, stream, err, nframes, ncleanup, thist>>
    /\ UNCHANGED <<wfixed, stop_event, hvars, qvars>>

\* main, lines 137-140: the try block and `with edgeiq.Streamer() as streamer`
\* are entered, then the first `results = []`; a Streamer that cannot be
\* opened raises, into the finally block.
MStreamer ==
    /\ mpc = "streamer"
    /\ \E ok \in BOOLEAN :
         IF ok
         THEN /\ streamer' = "open"
              /\ mpc' = "get"
              /\ UNCHANGED merr
         ELSE /\ merr' = TRUE
              /\ mpc' = "stop"
              /\ UNCHANGED streamer
    /\ UNCHANGED <<mi, mresults, nsent, payload, exitreq, mwait, mtaken, shut>>
    /\ UNCHANGED <<wfixed, tvars, stop_event, hvars, qvars>>

\* main, lines 141-142: c.get_results() for the next camera of the list;
\* wait is True, so get_results enters CircularQueue.get (HGetPop, HGetSleep).
MGetCall ==
    /\ mpc = "get"
    /\ hpc = "idle"
    /\ hpc' = "pop"
    /\ hcam' = cameras[mi]
    /\ hret' = [op |-> "get_wait", cam |-> cameras[mi], val |-> None,
                flag |-> FALSE, hit |-> FALSE]
    /\ mwait' = nframes[cameras[mi]]
    /\ mpc' = "wait"
    /\ UNCHANGED <<hcalls, lastRead>>
    /\ UNCHANGED <<mi, mresults, streamer, merr, nsent, payload, exitreq,
                   mtaken, shut>>
    /\ UNCHANGED <<wfixed, tvars, stop_event, qvars>>

\* main, line 142: get_results has returned; results.append(...), and on to
\* the next camera or to the payload.
MGetReturn ==
    /\ mpc = "wait"
    /\ hpc = "idle"
    /\ mresults' = Append(mresults, hret.val)
    /\ mtaken' = [mtaken EXCEPT ![cameras[mi]] = @ + 1]
    /\ IF mi < Len(cameras)
       THEN /\ mi' = mi + 1
            /\ mpc' = "get"
       ELSE /\ mi' = 1
            /\ mpc' = "send"
    /\ UNCHANGED <<streamer, merr, nsent, payload, exitreq, mwait, shut>>
    /\ UNCHANGED <<wfixed, tvars, stop_event, hvars, qvars>>

\* main, lines 145-161: the text and the frame are built and handed to
\* streamer.send_data; np.concatenate or send_data may raise, which leaves
\* the with block.
MSend ==
    /\ mpc = "send"
    /\ \E ok \in BOOLEAN :
         IF ok
         THEN /\ payload' = compose(mresults)
              /\ nsent' = nsent + 1
              /\ mpc' = "check_exit"
              /\ UNCHANGED merr
         ELSE /\ merr' = TRUE
              /\ mpc' = "close"
              /\ UNCHANGED <<payload, nsent>>
    /\ UNCHANGED <<mi, mresults, streamer, exitreq, mwait, mtaken, shut>>
    /\ UNCHANGED <<wfixed, tvars, stop_event, hvars, qvars>>

\* main, lines 163-164 and 140: `if streamer.check_exit(): break`, else the
\* next iteration begins with `results = []`.
MCheckExit ==
    /\ mpc = "check_exit"
    /\ \E ex \in BOOLEAN :
         IF ex
         THEN /\ exitreq' = TRUE
              /\ mpc' = "close"
              /\ UNCHANGED mresults
         ELSE /\ mresults' = <<>>
              /\ mpc' = "get"
              /\ UNCHANGED exitreq
    /\ UNCHANGED <<mi, streamer, merr, nsent, payload, mwait, mtaken, shut>>
    /\ UNCHANGED <<wfixed, tvars, stop_event, hvars, qvars>>

\* main, line 138: the with block is left (break or exception); the finally
\* block of line 166 follows.
MClose ==
    /\ mpc = "close"
    /\ streamer' = "closed"
    /\ mpc' = "stop"
    /\ mi' = 1
    /\ UNCHANGED <<mresults, merr, nsent, payload, exitreq, mwait, mtaken, shut>>
    /\ UNCHANGED <<wfixed, tvars, stop_event, hvars, qvars>>

\* A finally block that signals every worker before it joins any.
MStop_all ==
    /\ mpc = "stop"
    /\ stop_event' = [c \in CameraIdxs |-> IF c \in Cams THEN stop(stop_event[c])
                                                      ELSE stop_event[c]]
    /\ shut' = Append(shut, [op |-> "stop", cam |-> cameras[mi]])
    /\ mpc' = "join"
    /\ UNCHANGED <<mi, mresults, streamer, merr, nsent, payload, exitreq, mwait,
                   mtaken>>
    /\ UNCHANGED <<wfixed, tvars, hvars, qvars>>

\* main, lines 167-168: c.stop() for the next camera of the list.
MStop ==
    /\ mpc = "stop"
    /\ stop_event' = [stop_event EXCEPT ![cameras[mi]] = stop(@)]
    /\ shut' = Append(shut, [op |-> "stop", cam |-> cameras[mi]])
    /\ mpc' = "join"
    /\ UNCHANGED <<mi, mresults, streamer, merr, nsent, payload, exitreq, mwait,
                   mtaken>>
    /\ UNCHANGED <<wfixed, tvars, hvars, qvars>>

\* main, line 169: c.join() is called; it returns by HJoinReturn.
MJoinCall ==
    /\ mpc = "join"
    /\ hpc = "idle"
    /\ hpc' = "join"
    /\ hcam' = cameras[mi]
    /\ hret' = [op |-> "join_wait", cam |-> cameras[mi], val |-> None,
                flag |-> FALSE, hit |-> FALSE]
    /\ mpc' = "joined"
    /\ UNCHANGED <<hcalls, lastRead>>
    /\ UNCHANGED <<mi, mresults, streamer, merr, nsent, payload, exitreq, mwait,
                   mtaken, shut>>
    /\ UNCHANGED <<wfixed, tvars, stop_event, qvars>>

\* A finally block that stops at its first worker.
MJoinReturn_first ==
    /\ mpc = "joined"
    /\ hpc = "idle"
    /\ shut' = Append(shut, [op |-> "join", cam |-> cameras[mi]])
    /\ mpc' = "end"
    /\ UNCHANGED <<mi, mresults, streamer, merr, nsent, payload, exitreq, mwait,
                   mtaken>>
    /\ UNCHANGED <<wfixed, tvars, stop_event, hvars, qvars>>

\* main, lines 167-170: join has returned; the next camera of the list, or
\* "Program Ending" after the last.
MJoinReturn ==
    /\ mpc = "joined"
    /\ hpc = "idle"
    /\ shut' = Append(shut, [op |-> "join", cam |-> cameras[mi]])
    /\ IF mi < Len(cameras)
       THEN /\ mi' = mi + 1
            /\ mpc' = "stop"
       ELSE /\ mpc' = "end"
            /\ UNCHANGED mi
    /\ UNCHANGED <<mresults, streamer, merr, nsent, payload, exitreq, mwait,
                   mtaken>>
    /\ UNCHANGED <<wfixed, tvars, stop_event, hvars, qvars>>

\* main after lines 127-132: the CameraThread objects are constructed.
InitM ==
    /\ InitWorkers(camera_idxs)
    /\ InitMain("start")
    /\ IdleQ

NextM ==
    \/ \E c \in Cams : WSetup(c)
    \/ \E c \in Cams : WOpen(c)
    \/ \E c \in Cams : WWarmup(c)
    \/ \E c \in Cams : WRead(c)
    \/ \E c \in Cams : WCheck(c)
    \/ \E c \in Cams : WDetect(c)
    \/ \E c \in Cams : WPut(c)
    \/ \E c \in Cams : WRelease(c)
    \/ \E c \in Cams : WFinally(c)
    \/ MStart
    \/ MStreamer
    \/ MGetCall
    \/ HGetPop
    \/ HGetSleep
    \/ MGetReturn
    \/ MSend
    \/ MCheckExit
    \/ MClose
    \/ MStop
    \/ MJoinCall
    \/ HJoinReturn
    \/ MJoinReturn

SpecM == InitM /\ [][NextM]_vars

\* ------------------------------------------------------------------ helpers of the properties

Range(q) == {q[i] : i \in 1..Len(q)}

\* The deque read from its right end: the order in which pop returns the items.
OldestFirst(q) == [i \in 1..Len(q) |-> q[Len(q) + 1 - i]]

\* The item of q that was published first (items are numbered by arrival).
Oldest(q) == CHOOSE x \in Range(q) : \A y \in Range(q) : x <= y

Max(a, b) == IF a >= b THEN a ELSE b

\* ------------------------------------------------------------------ C1

\* C1: the queue never holds more than maxlen items; read oldest first, the
\* retained items are the most recently published ones in arrival order
\* (a run of consecutive item numbers ending at the newest); a put onto a
\* full queue leaves it full, having dropped exactly the oldest retained item
\* and kept the new one.
C1_BoundedArrivalOrder ==
    /\ [](/\ Len(dq) <= maxlen
          /\ \A i \in 1..Len(dq) : OldestFirst(dq)[i] = npub - Len(dq) + i)
    /\ [][(npub' = npub + 1 /\ Len(dq) = maxlen)
            => /\ Len(dq') = maxlen
               /\ OldestFirst(dq') = Tail(OldestFirst(dq)) \o <<npub'>>]_vars

\* Capacity 2: publish 1, 2, 3 leaves [2, 3]; the takes returned 2, then 3.
C1_Witness ==
    /\ maxlen = 2
    /\ npub = 3
    /\ taken = <<2, 3>>
    /\ dq = <<>>

\* ------------------------------------------------------------------ C2

\* C2: under every interleaving of the producer's put with the consumer's get
\* and get_nowait, the items returned to the consumer are published items in
\* strictly increasing publish order (none twice, none invented, none after a
\* later one).
C2_TakenIncreasing ==
    /\ \A i \in 1..Len(taken) : taken[i] \in 1..npub
    /\ \A i \in 1..Len(taken) : \A j \in 1..Len(taken) : i < j => taken[i] < taken[j]

\* Three items were returned, with an evicted item skipped in between.
C2_Witness ==
    /\ Len(taken) >= 3
    /\ \E i \in 1..(Len(taken) - 1) : taken[i + 1] > taken[i] + 1

\* ------------------------------------------------------------------ C3

\* C3: put can be taken in every queue state (full or not, whatever the
\* consumer does) as long as the producer has an item left to publish.
C3_PutAlwaysEnabled == npub < MaxPub => ENABLED QPut

\* The producer published onto a full queue although the consumer never took.
C3_Witness ==
    /\ ncalls = 0
    /\ Len(dq) = maxlen
    /\ npub > maxlen

\* ------------------------------------------------------------------ C4

\* C4: a get_nowait call is one step of the consumer, which is not suspended
\* after it; on an empty queue its outcome is Empty and the queue stays
\* empty; on a non-empty queue it returns the oldest retained item and
\* removes exactly that item.
C4_GetNowait ==
    [][(ncalls' = ncalls + 1 /\ cop' = "get_nowait")
        => /\ cpc' = "idle"
           /\ cout'.op = "get_nowait"
           /\ IF dq = <<>>
              THEN /\ cout'.empty
                   /\ dq' = <<>>
                   /\ taken' = taken
              ELSE /\ ~cout'.empty
                   /\ cout'.val = Oldest(dq)
                   /\ Range(dq') = Range(dq) \ {Oldest(dq)}
                   /\ Len(dq') = Len(dq) - 1
                   /\ taken' = Append(taken, Oldest(dq))]_vars

\* get_nowait signalled Empty on a queue that had been drained before.
C4_Witness ==
    /\ cop = "get_nowait"
    /\ cout.op = "get_nowait"
    /\ cout.empty
    /\ cpc = "idle"
    /\ dq = <<>>
    /\ Len(taken) >= 1

\* ------------------------------------------------------------------ C5

\* C5 as stated: a get that found the queue empty returns the next item
\* published after that (item gseen + 1).
C5_ReturnsNextPublished ==
    [][(cpc = "pop" /\ cpc' = "idle" /\ gseen >= 0) => cout'.val = gseen + 1]_vars

\* C5, amended: a get does not return while the queue is empty; once an item
\* is in the queue a scheduled consumer eventually returns; and a get that
\* found the queue empty returns the oldest item retained at its successful
\* poll: the next published item, unless more than maxlen items were
\* published since, and then the oldest of the last maxlen published.
C5_BlockingGet ==
    /\ [][(cpc # "idle" /\ cpc' = "idle") => dq # <<>>]_vars
    /\ [][(cpc = "pop" /\ cpc' = "idle" /\ gseen >= 0)
            => /\ cout'.op = "get"
               /\ ~cout'.empty
               /\ cout'.val = Max(gseen + 1, npub - maxlen + 1)]_vars
    /\ (cpc # "idle" /\ dq # <<>>) ~> (cpc = "idle")

\* A get that found the queue empty returned an item later than the next one.
C5_Witness ==
    /\ cpc = "idle"
    /\ cout.op = "get"
    /\ gseen >= 0
    /\ cout.val > gseen + 1

\* ------------------------------------------------------------------ C6

\* The result get and get_nowait take from a queue: the one published first.
OldestResult(q) ==
    CHOOSE x \in Range(q) : \A y \in Range(q) : x.seq <= y.seq

\* The step is a get_results(wait=False) call on camera c.
IsNowaitCall(c) ==
    /\ hcalls' = hcalls + 1
    /\ hret'.op = "get_nowait"
    /\ hcam' = c

\* C6: a get_results(wait=False) call on an empty queue returns the cached
\* value and leaves the cache at that value; on a non-empty queue it returns
\* the taken (oldest) result, which becomes the cached value; and nothing
\* else changes the cache, so later misses return that value until the next hit.
C6_NowaitCache ==
    [][\A c \in CameraIdxs :
         /\ IsNowaitCall(c) =>
              /\ hpc' = "idle"
              /\ ~hret'.flag
              /\ IF results_q[c] = <<>>
                 THEN /\ hret'.val = prev_results[c]
                      /\ prev_results'[c] = prev_results[c]
                      /\ results_q'[c] = <<>>
                 ELSE /\ hret'.val = OldestResult(results_q[c])
                      /\ prev_results'[c] = OldestResult(results_q[c])
                      /\ Range(results_q'[c])
                           = Range(results_q[c]) \ {OldestResult(results_q[c])}
         /\ prev_results'[c] # prev_results[c]
              => IsNowaitCall(c) /\ results_q[c] # <<>>]_vars

\* A miss returned the value cached by an earlier hit.
C6_Witness ==
    /\ hret.op = "get_nowait"
    /\ ~hret.hit
    /\ hret.val # None
    /\ hret.val = prev_results[hret.cam]
    /\ hpc = "idle"

\* ------------------------------------------------------------------ C7

\* C7: the cached result of every worker is the result most recently read
\* from its queue, by get_results(wait=True) or get_results(wait=False), and
\* None only while nothing has been read.
C7_CacheIsLastRead ==
    \A c \in CameraIdxs : prev_results[c] = lastRead[c]

\* ------------------------------------------------------------------ C8

\* C8: as long as a worker has published nothing (not started, still setting
\* up, or ended by a setup failure), a get_results(wait=False) call on it
\* returns None without raising, and its cache stays None.
C8_AbsentBeforePublish ==
    \A c \in CameraIdxs :
        nframes[c] = 0 =>
            /\ prev_results[c] = None
            /\ (hret.op = "get_nowait" /\ hret.cam = c)
                 => (hret.val = None /\ ~hret.flag /\ ~hret.hit /\ hpc = "idle")

\* Repeated get_results(wait=False) on a worker whose setup failed.
C8_Witness ==
    /\ wpc[0] = "done"
    /\ err[0] = "setup"
    /\ nframes[0] = 0
    /\ hret.op = "get_nowait"
    /\ hret.cam = 0
    /\ hret.val = None
    /\ hcalls >= 3

\* ------------------------------------------------------------------ C9

\* C9: a stop() call is one step of the client, possible in every state of
\* the worker; it leaves the event set and changes nothing else of the worker
\* (its thread position included), so a repeated stop() changes nothing at
\* all; and no step clears the event.
C9_StopIdempotent ==
    /\ [][\A c \in CameraIdxs : stop_event[c] => stop_event'[c]]_vars
    /\ [][(hcalls' = hcalls + 1 /\ hret'.op = "stop")
            => /\ stop_event'[hcam']
               /\ hpc' = "idle"
               /\ \A d \in CameraIdxs \ {hcam'} : stop_event'[d] = stop_event[d]
               /\ stop_event[hcam'] => stop_event' = stop_event
               /\ UNCHANGED <<tvars, results_q, prev_results>>]_vars
    /\ []((hpc = "idle" /\ hcalls < MaxClientCalls)
            => \A c \in Cams : ENABLED HStop(c))

\* stop() was called again on a worker whose thread is still in its loop.
C9_Witness ==
    /\ hret.op = "stop"
    /\ hret.flag
    /\ wpc[hret.cam] \in LoopPcs
    /\ stop_event[hret.cam]

\* ------------------------------------------------------------------ C10

\* The worker state of the life cycle, read off the thread position and the
\* stop event.
WorkerState(c) ==
    IF wpc[c] = "done" THEN "Stopped"
    ELSE IF stop_event[c] THEN "StopRequested"
    ELSE IF wpc[c] \in LoopPcs
            \/ (wpc[c] \in {"release", "finally"} /\ err[c] = "loop") THEN "Running"
    ELSE IF wpc[c] = "init" THEN "Created"
    ELSE "Starting"

StateRank(st) ==
    CASE st = "Created" -> 0
      [] st = "Starting" -> 1
      [] st = "Running" -> 2
      [] st = "StopRequested" -> 3
      [] st = "Stopped" -> 4

\* C10: no step takes a worker to an earlier state of Starting, Running,
\* StopRequested, Stopped; Running is entered from Starting, with the engine
\* loaded and the capture open; a Stopped worker stays Stopped and publishes
\* nothing more.
C10_ForwardOnly ==
    /\ [][\A c \in CameraIdxs :
            StateRank(WorkerState(c)') >= StateRank(WorkerState(c))]_vars
    /\ [][\A c \in CameraIdxs :
            (WorkerState(c) # "Running" /\ WorkerState(c)' = "Running")
              => /\ WorkerState(c) = "Starting"
                 /\ loaded[c]
                 /\ stream[c] = "open"]_vars
    /\ [][\A c \in CameraIdxs :
            wpc[c] = "done"
              => /\ wpc'[c] = "done"
                 /\ nframes'[c] = nframes[c]
                 /\ Len(results_q'[c]) <= Len(results_q[c])]_vars

\* A worker went through its whole life cycle and its exit was joined.
C10_Witness ==
    /\ hret.op = "join"
    /\ wpc[hret.cam] = "done"
    /\ err[hret.cam] = "none"
    /\ stop_event[hret.cam]
    /\ nframes[hret.cam] >= 1

\* ------------------------------------------------------------------ C11

\* C11: once stop() has been called on a started worker its thread
\* eventually ends, a join() waiting on a stopped worker eventually returns,
\* and no join() returns while the worker's thread has not ended.
C11_StopThenExit ==
    /\ \A c \in CameraIdxs :
         (stop_event[c] /\ wpc[c] # "init") ~> (wpc[c] = "done")
    /\ (hpc = "join" /\ stop_event[hcam]) ~> (hpc = "idle")
    /\ [][(hpc = "join" /\ hpc' # "join") => wpc[hcam] = "done"]_vars

\* A join issued after stop(), while the worker was publishing, has returned.
C11_Witness ==
    /\ hret.op = "join"
    /\ hpc = "idle"
    /\ stop_event[hret.cam]
    /\ wpc[hret.cam] = "done"
    /\ err[hret.cam] = "none"
    /\ nframes[hret.cam] >= 2

\* ------------------------------------------------------------------ C12

\* C12: a worker puts at most one result while its stop event is set, and a
\* stop check that sees the event set leaves the loop: no detect and no put
\* follow it.
C12_AtMostOneAfterStop ==
    /\ [](\A c \in CameraIdxs : nafter[c] <= 1)
    /\ [][\A c \in CameraIdxs :
            (wpc[c] = "check" /\ stop_event[c] /\ wpc'[c] # "check")
              => /\ wpc'[c] = "release"
                 /\ nframes'[c] = nframes[c]
                 /\ results_q'[c] = results_q[c]]_vars
    /\ [][\A c \in CameraIdxs :
            wpc[c] \in {"release", "finally", "done"}
              => /\ wpc'[c] \in {"release", "finally", "done"}
                 /\ nframes'[c] = nframes[c]]_vars

\* stop() came during an inference: that one result was still published, and
\* the thread has ended.
C12_Witness ==
    /\ nafter[0] = 1
    /\ wpc[0] = "done"
    /\ err[0] = "none"

\* ------------------------------------------------------------------ C13

\* C13: the finally block of run has run exactly once when the thread has
\* ended and never more; an opened stream is released exactly once and is not
\* open after the thread has ended, a stream never opened is never released;
\* after an exception the thread only goes on to its cleanup and its end (no
\* retry), and the raising step puts nothing on the queue.
C13_CleanupOnce ==
    /\ [](\A c \in CameraIdxs :
            /\ ncleanup[c] <= 1
            /\ nrelease[c] <= 1
            /\ nrelease[c] = (IF stream[c] = "released" THEN 1 ELSE 0)
            /\ wpc[c] = "done" => (ncleanup[c] = 1 /\ stream[c] # "open")
            /\ wpc[c] # "done" /\ wpc[c] # "finally" => ncleanup[c] = 0)
    /\ [][\A c \in CameraIdxs :
            /\ err[c] # "none" => /\ wpc'[c] \in {"release", "finally", "done"}
                                  /\ nframes'[c] = nframes[c]
            /\ err'[c] # err[c] => results_q'[c] = results_q[c]]_vars

\* A thread ended by an exception inside its loop, after it had published.
C13_Witness ==
    /\ wpc[0] = "done"
    /\ err[0] = "loop"
    /\ nframes[0] >= 1
    /\ stream[0] = "released"
    /\ ncleanup[0] = 1

\* ------------------------------------------------------------------ C19

\* C19: every item a take (get or get_nowait) returns is, at the moment of
\* the take, among the maxlen most recently published items.
C19_Staleness ==
    [][taken' # taken
        => /\ Len(taken') = Len(taken) + 1
           /\ taken'[Len(taken')] > npub - maxlen
           /\ taken'[Len(taken')] <= npub]_vars

\* Capacity 2, at least three items published: the only take so far returned
\* the second-latest item, and the latest is still in the queue.
C19_Witness ==
    /\ maxlen = 2
    /\ npub >= 3
    /\ ncalls = 1
    /\ taken = <<npub - 1>>
    /\ dq = <<npub>>

\* ------------------------------------------------------------------ C14

\* main is inside its finally block (or past it).
ShutdownPcs == {"stop", "join", "joined", "end"}

\* The step in which main's get_results(wait=True) call returns.
IsMainGetReturn ==
    /\ mpc = "wait"
    /\ hpc \in {"pop", "sleep"}
    /\ hpc' = "idle"

C15_SlowestGates ==
    /\ [](\A c \in Cams : nsent <= mtaken[c] /\ mtaken[c] <= nframes[c])
    /\ [](exitreq => nsent >= 1)
    /\ [][\A c \in Cams :
            (mpc = "wait" /\ hcam = c /\ hpc # "idle" /\ results_q[c] = <<>>
               /\ nframes'[c] = nframes[c])
              => /\ mpc' = "wait"
                 /\ hpc' # "idle"
                 /\ nsent' = nsent
                 /\ exitreq' = exitreq]_vars

\* Worker 1 died in its loop after its results were sent; main waits on it
\* while worker 0 has published more.
C15_Witness ==
    /\ wpc[1] = "done"
    /\ err[1] = "loop"
    /\ nsent >= 1
    /\ nsent = nframes[1]
    /\ nframes[0] > nframes[1]
    /\ mpc = "wait"
    /\ hcam = 1
    /\ hpc = "sleep"

\* ------------------------------------------------------------------ C16

\* stop() and join() for every camera of the list, camera by camera.
ShutLog ==
    [i \in 1..(2 * Len(cameras)) |->
        IF i % 2 = 1 THEN [op |-> "stop", cam |-> cameras[(i + 1) \div 2]]
        ELSE [op |-> "join", cam |-> cameras[i \div 2]]]

\* C16: once an exit request was seen or an error was raised inside the try
\* block, main is on its way through the shutdown pass and does not leave it;
\* the stop() calls and join() returns happen in the order stop, join per
\* worker, in registration order; and the program end is reached only with
\* all of them done and every worker thread ended.
C16_Shutdown ==
    /\ []((exitreq \/ merr) => mpc \in ShutdownPcs \cup {"close"})
    /\ [](/\ Len(shut) <= Len(ShutLog)
          /\ \A i \in 1..Len(shut) : shut[i] = ShutLog[i])
    /\ [](mpc = "end" => /\ shut = ShutLog
                         /\ \A c \in Cams : wpc[c] = "done" /\ stop_event[c])
    /\ [][/\ mpc = "close" => mpc' \in {"close", "stop"}
          /\ mpc \in ShutdownPcs => mpc' \in ShutdownPcs]_vars

\* The program ended after an error inside the loop, one worker having been
\* ended by an exception of its own.
C16_Witness ==
    /\ mpc = "end"
    /\ merr
    /\ streamer = "closed"
    /\ err[1] = "loop"

\* ------------------------------------------------------------------ C17

\* C17 as stated: when a worker's setup has failed, main never reaches its
\* shutdown pass.
C17_NoShutdownAfterSetupFailure ==
    \A c \in Cams : err[c] = "setup" => mpc \notin ShutdownPcs

\* C17, amended: a worker whose setup failed never enters its loop and never
\* publishes; main takes nothing from it, sends nothing, and once it waits on
\* that worker it waits for ever; the shutdown pass is reached only when the
\* Streamer failed to open, before any get_results call.
C17_SetupFailureStalls ==
    /\ [](\A c \in Cams :
            err[c] = "setup"
              => /\ wpc[c] \in {"finally", "done"}
                 /\ nframes[c] = 0
                 /\ results_q[c] = <<>>
                 /\ mtaken[c] = 0
                 /\ nsent = 0
                 /\ mpc \in ShutdownPcs
                      => (streamer = "none" /\ merr
                          /\ \A d \in Cams : mtaken[d] = 0))
    /\ [][\A c \in Cams :
            (err[c] = "setup" /\ mpc = "wait" /\ hcam = c)
              => (mpc' = "wait" /\ hpc' \in {"pop", "sleep"})]_vars

\* Worker 1 failed in its setup; main took worker 0's result and waits on
\* worker 1.
C17_Witness ==
    /\ err[1] = "setup"
    /\ wpc[1] = "done"
    /\ mtaken[0] = 1
    /\ mpc = "wait"
    /\ hcam = 1
    /\ hpc = "sleep"

\* ------------------------------------------------------------------ C18

\* The position of camera c in the list `cameras`.
PosOf(c) == CHOOSE i \in 1..Len(cameras) : cameras[i] = c

\* C18: results are taken in registration order, one per worker and
\* iteration (when the k-th payload is sent main has taken k results from
\* each worker); the list of an iteration holds at position i a result of the
\* camera at position i; and the payload sent holds exactly the results of
\* this iteration, frames and text in registration order.
C18_OneEachInOrder ==
    /\ [](/\ Len(mresults) <= Len(cameras)
          /\ \A i \in 1..Len(mresults) :
               /\ mresults[i].idx = cameras[i]
               /\ mresults[i].seq >= 1)
    /\ [][\A c \in Cams :
            mtaken'[c] # mtaken[c]
              => /\ mtaken'[c] = mtaken[c] + 1
                 /\ Len(mresults) = PosOf(c) - 1
                 /\ \A d \in Cams :
                      /\ PosOf(d) < PosOf(c) => mtaken[d] = mtaken[c] + 1
                      /\ PosOf(d) > PosOf(c) => mtaken[d] = mtaken[c]]_vars
    /\ [][nsent' = nsent + 1
            => /\ Len(mresults) = Len(cameras)
               /\ \A c \in Cams : mtaken[c] = nsent + 1
               /\ \A i \in 1..Len(cameras) : mresults[i] = lastRead[cameras[i]]
               /\ payload'.frame = mresults
               /\ payload'.text = mresults]_vars

\* Two payloads were sent; the last one pairs results of different numbers.
C18_Witness ==
    /\ nsent >= 2
    /\ payload.frame[1].idx = 0
    /\ payload.frame[2].idx = 1
    /\ payload.frame[1].seq > payload.frame[2].seq

\* ------------------------------------------------------------------ C20

\* C20: a worker's stop event is set only when every worker before it in the
\* list has ended and its join has returned; and while main waits in join on
\* a worker that has not ended, it stays there and no stop event changes.
C20_SequentialShutdown ==
    /\ [](\A i \in 1..Len(cameras) : \A j \in 1..Len(cameras) :
            (j < i /\ stop_event[cameras[i]])
              => /\ wpc[cameras[j]] = "done"
                 /\ \E k \in 1..Len(shut) :
                      shut[k] = [op |-> "join", cam |-> cameras[j]])
    /\ [][(mpc \in {"join", "joined"} /\ wpc[cameras[mi]] # "done")
            => /\ mpc' \in {"join", "joined"}
               /\ mi' = mi
               /\ stop_event' = stop_event]_vars

\* main waits in join on worker 0, which has not ended; worker 1 has not been
\* asked to stop and has published since.
C20_Witness ==
    /\ mpc = "joined"
    /\ mi = 1
    /\ wpc[0] # "done"
    /\ stop_event[0]
    /\ ~stop_event[1]
    /\ wpc[1] \in LoopPcs
    /\ nframes[1] > mtaken[1]

====
